---- MODULE Spec2Model ----
(***************************************************************************)
(* Coin Collector: the authoritative server (src/server.py) and the        *)
(* interpolating client (src/client.py).                                   *)
(*                                                                         *)
(* Units.  Time is counted in clock units of 100 ms (UnitsPerSecond = 10), *)
(* so the 0.1 s latencies are 1 unit and the 2.0 s coin interval is 20.    *)
(* Positions are whole pixels; velocities are fixed-point numbers with     *)
(* VScale steps per px/s, so that the diagonal speed 200/sqrt(2) has a     *)
(* representation (the code uses IEEE doubles; every comparison with a     *)
(* float result below is made up to the rounding of this representation).  *)
(***************************************************************************)
EXTENDS Integers, Sequences, FiniteSets, TLC

(* ---------------- program constants (src/server.py) ------------------- *)
SERVER_LATENCY == 1
WORLD_W == 800
WORLD_H == 600
PLAYER_SPEED == 200
PLAYER_RADIUS == 16
COIN_RADIUS == 10
Margin == 10
CoinMargin == 30
SpawnMargin == 50
SpawnInterval == 20
UnitsPerSecond == 10
(* ---------------- program constants (src/client.py) ------------------- *)
CLIENT_LATENCY == 1
INTERPOLATION_DELAY == 1
SnapMaxLen == 200

(* ---------------- bounds of the model --------------------------------- *)
MaxTime == 20
MaxPid == 2
MaxCoins == 2
MaxDatagrams == 2
MaxOut == 2
VScale == 100
NetMaxTime == 4
MaxSnapshots == 2
MaxIntents == 2
WorldMaxTime == 40      \* the clock of SpecWorld runs to 4.0 s
MaxBurst == 202         \* datagrams that reach the client in SpecBuffer

(* ---------------- helpers --------------------------------------------- *)
Max(a, b) == IF a >= b THEN a ELSE b
Min(a, b) == IF a <= b THEN a ELSE b
Abs(a) == IF a >= 0 THEN a ELSE -a
Sign(a) == IF a > 0 THEN 1 ELSE IF a < 0 THEN -1 ELSE 0

RECURSIVE ISqrtIn(_, _, _)
ISqrtIn(lo, hi, n) ==
    IF lo >= hi THEN lo
    ELSE LET mid == (lo + hi + 1) \div 2
         IN  IF mid * mid <= n THEN ISqrtIn(mid, hi, n) ELSE ISqrtIn(lo, mid - 1, n)

\* floor of the square root of n (x ** 0.5 of server.py:150, to the unit of the
\* fixed-point representation)
ISqrt(n) == ISqrtIn(0, Min(n, 46340), n)

None == "None"

(* ---------------- state ------------------------------------------------ *)
VARIABLES
    clock,              \* current_time(): the wall clock, in clock units
    running,            \* Server.running
    players,            \* Server.players: pid -> Player
    next_pid,           \* Server.next_pid
    coins,              \* Server.coins: list of {id, x, y}
    coin_next_id,       \* Server.coin_next_id
    lock,               \* Server.lock: "free" or the thread that holds it
    inbound_queue,      \* Server.inbound_queue: (process_time, (data, addr))
    outbound_queue,     \* Server.outbound_queue: (send_time, (data, addr))
    recv_pc,            \* udp_recv_loop: where the thread is
    recv_now,           \* udp_recv_loop: its local `now`
    prev,               \* main_loop: its local `prev`
    coin_spawn_timer,   \* main_loop: its local `coin_spawn_timer`
    bc_pc,              \* broadcaster_loop: where the thread is
    snapshot,           \* broadcaster_loop: its local `data` (the serialized snapshot)
    in_n,               \* datagrams received so far (numbers the inbound envelopes)
    out_n,              \* envelopes enqueued by the broadcaster so far
    processed_log,      \* inbound envelopes handed to the ingestor, in order, each
                        \* with the path its message took through the ingestor
    sent_log,           \* outbound envelopes handed to sendto, in order
    award_log,          \* (coin, pid) for every score point awarded, in order, each
                        \* with the set of players that overlapped the coin then
    unlocked,           \* the shared collections a thread has used without holding
                        \* Server.lock: a set of <<thread, collection>>
    closed,             \* the pids whose participant has closed its TCP connection
    spawn_log,          \* the clock reading `now` of every tick that created a coin
    tick_pc,            \* main_loop: where the thread is inside its `with self.lock`
    to_remove,          \* main_loop: its local `to_remove`
    tick_dt,            \* main_loop: its local `dt`
    tick_todo,          \* main_loop: the players its position loop has yet to visit
    c_running,          \* Client.running (FALSE: the client process is not running)
    to_send_queue,      \* Client.to_send_queue: (deliver_time, data, addr)
    c_inbound_queue,    \* Client.inbound_queue: (process_time, data)
    snapshots,          \* Client.snapshots: deque(maxlen=200)
    send_pc,            \* Client.udp_send_loop: where the thread is
    send_now,           \* Client.udp_send_loop: its local `now`
    c_recv_pc,          \* Client.udp_recv_loop: where the thread is
    c_recv_now,         \* Client.udp_recv_loop: its local `now`
    view,               \* what get_interpolated_state returned last
    view_of,            \* the buffer and the clock reading of that call
    c_in_n,             \* datagrams the client received so far
    c_out_n,            \* intents the client enqueued so far
    c_processed_log,    \* client inbound envelopes handed to the buffer stage, in order
    c_sent_log          \* client outbound envelopes handed to sendto, in order

server_vars == <<running, players, next_pid, coins, coin_next_id, lock,
                 inbound_queue, outbound_queue, recv_pc, recv_now, prev,
                 coin_spawn_timer, bc_pc, snapshot, in_n, out_n,
                 processed_log, sent_log, award_log,
                   unlocked, closed, spawn_log, tick_pc, to_remove,
                   tick_dt, tick_todo>>

client_vars == <<c_running, to_send_queue, c_inbound_queue, snapshots, send_pc,
                 send_now, c_recv_pc, c_recv_now, view, view_of, c_in_n, c_out_n,
                 c_processed_log, c_sent_log>>

vars == <<clock, server_vars, client_vars>>

(* ---------------- Latency Simulation Queue ------------------------------ *)
\* a drain loop that does not look at the eligible time
DueWhenQueued(queue, now) == queue # <<>>

\* `while queue and queue[0][0] <= now` (server.py:128, 161; client.py:127, 145)
Due(queue, now) == queue # <<>> /\ Head(queue).time <= now

(* ---------------- datagram payloads ------------------------------------ *)
\* What json.loads(data.decode()) makes of a datagram (server.py:131).
\*   t = "undecodable": not UTF-8 or not JSON;  t = "nonobject": JSON, but a list,
\*   number, string or null;  t = "object": a JSON object with the fields below.
\*   hashable = FALSE: "pid" is a list or an object.  intent.obj = FALSE: "intent"
\*   is not an object.
NoIntent == [obj |-> FALSE, left |-> FALSE, right |-> FALSE, up |-> FALSE, down |-> FALSE]
Intent(l, r, u, d) == [obj |-> TRUE, left |-> l, right |-> r, up |-> u, down |-> d]
AllIntents == {Intent(l, r, u, d) : l \in BOOLEAN, r \in BOOLEAN, u \in BOOLEAN, d \in BOOLEAN}

Undecodable == [t |-> "undecodable", type |-> "", pid |-> 0, hashable |-> TRUE, intent |-> NoIntent]
NonObject == [t |-> "nonobject", type |-> "", pid |-> 0, hashable |-> TRUE, intent |-> NoIntent]
OtherMsg == [t |-> "object", type |-> "other", pid |-> 0, hashable |-> TRUE, intent |-> NoIntent]
InputMsg(pid, intent) ==
    [t |-> "object", type |-> "input", pid |-> pid, hashable |-> TRUE, intent |-> intent]
UnhashablePidMsg ==
    [t |-> "object", type |-> "input", pid |-> 0, hashable |-> FALSE, intent |-> Intent(TRUE, FALSE, FALSE, FALSE)]

Addrs == {"A", "B"}

(* ---------------- Player ----------------------------------------------- *)
\* Player.__init__ (server.py:31-39); (x, y) is the random.uniform draw.
NewPlayer(x, y) ==
    [x |-> x, y |-> y, vx |-> 0, vy |-> 0, score |-> 0, last_input_time |-> 0, addr |-> None]

\* The players in the iteration order of the dict: insertion order, which is
\* ascending pid because pids only grow and a deleted pid is never inserted again.
RECURSIVE PidSeqFrom(_, _)
PidSeqFrom(ps, n) ==
    IF n > MaxPid + 1 THEN <<>>
    ELSE (IF n \in DOMAIN ps THEN <<n>> ELSE <<>>) \o PidSeqFrom(ps, n + 1)
PidSeq(ps) == PidSeqFrom(ps, 1)

(* ---------------- Input Ingestor: intent -> velocity ------------------- *)
\* server.py:144-148
IntentDx(intent) == (IF intent.right THEN 1 ELSE 0) - (IF intent.left THEN 1 ELSE 0)
IntentDy(intent) == (IF intent.down THEN 1 ELSE 0) - (IF intent.up THEN 1 ELSE 0)

\* server.py:150: mag, in steps of 1/VScale^2
Mag(dx, dy) == ISqrt((dx * dx + dy * dy) * VScale * VScale * VScale * VScale)

\* the velocity without the division by mag
NormalizedNoDivide(v, mag) == v * PLAYER_SPEED * VScale

\* server.py:152-153: (v / mag) * PLAYER_SPEED, in steps of 1/VScale px/s
Normalized(v, mag) ==
    Sign(v) * ((Abs(v) * PLAYER_SPEED * VScale * VScale * VScale) \div mag)

\* server.py:144-155: the velocity <<vx, vy>> an intent commands
IntentVelocity(intent) ==
    LET dx == IntentDx(intent)
        dy == IntentDy(intent)
        mag == Mag(dx, dy)
    IN  IF mag > 0 THEN <<Normalized(dx, mag), Normalized(dy, mag)>>
        ELSE <<0, 0>>

\* an ingestor without the `if p:` of line 140: an input for an unknown pid
\* registers a player under that pid
IngestUnknownPid(ps, msg, addr, now) ==
    IF msg.t = "undecodable"
    THEN [players |-> ps, crashed |-> FALSE, branch |-> "undecodable"]
    ELSE IF msg.t = "nonobject"
    THEN [players |-> ps, crashed |-> TRUE, branch |-> "nonobject"]
    ELSE IF msg.type # "input"
    THEN [players |-> ps, crashed |-> FALSE, branch |-> "other type"]
    ELSE IF ~msg.hashable
    THEN [players |-> ps, crashed |-> TRUE, branch |-> "unhashable pid"]
    ELSE IF msg.pid \notin DOMAIN ps
    THEN [players |-> (msg.pid :> [NewPlayer(SpawnMargin, SpawnMargin) EXCEPT !.addr = addr]) @@ ps,
          crashed |-> FALSE, branch |-> "unknown pid"]
    ELSE IF ~msg.intent.obj
    THEN [players |-> [ps EXCEPT ![msg.pid].addr = addr], crashed |-> TRUE,
          branch |-> "intent not an object"]
    ELSE LET v == IntentVelocity(msg.intent)
         IN  [players |-> [ps EXCEPT ![msg.pid].addr = addr,
                                     ![msg.pid].vx = v[1],
                                     ![msg.pid].vy = v[2],
                                     ![msg.pid].last_input_time = now],
              crashed |-> FALSE, branch |-> "applied"]

\* an ingestor that also moves the player by one pixel in the commanded direction
IngestAndMove(ps, msg, addr, now) ==
    IF msg.t = "undecodable"
    THEN [players |-> ps, crashed |-> FALSE, branch |-> "undecodable"]
    ELSE IF msg.t = "nonobject"
    THEN [players |-> ps, crashed |-> TRUE, branch |-> "nonobject"]
    ELSE IF msg.type # "input"
    THEN [players |-> ps, crashed |-> FALSE, branch |-> "other type"]
    ELSE IF ~msg.hashable
    THEN [players |-> ps, crashed |-> TRUE, branch |-> "unhashable pid"]
    ELSE IF msg.pid \notin DOMAIN ps
    THEN [players |-> ps, crashed |-> FALSE, branch |-> "unknown pid"]
    ELSE IF ~msg.intent.obj
    THEN [players |-> [ps EXCEPT ![msg.pid].addr = addr], crashed |-> TRUE,
          branch |-> "intent not an object"]
    ELSE LET v == IntentVelocity(msg.intent)
         IN  [players |-> [ps EXCEPT ![msg.pid].addr = addr,
                                     ![msg.pid].vx = v[1],
                                     ![msg.pid].vy = v[2],
                                     ![msg.pid].x = @ + Sign(v[1]),
                                     ![msg.pid].y = @ + Sign(v[2]),
                                     ![msg.pid].last_input_time = now],
              crashed |-> FALSE, branch |-> "applied"]

\* an ingestor that adds the commanded velocity to the velocity the player has
IngestAccumulates(ps, msg, addr, now) ==
    IF msg.t = "undecodable"
    THEN [players |-> ps, crashed |-> FALSE, branch |-> "undecodable"]
    ELSE IF msg.t = "nonobject"
    THEN [players |-> ps, crashed |-> TRUE, branch |-> "nonobject"]
    ELSE IF msg.type # "input"
    THEN [players |-> ps, crashed |-> FALSE, branch |-> "other type"]
    ELSE IF ~msg.hashable
    THEN [players |-> ps, crashed |-> TRUE, branch |-> "unhashable pid"]
    ELSE IF msg.pid \notin DOMAIN ps
    THEN [players |-> ps, crashed |-> FALSE, branch |-> "unknown pid"]
    ELSE IF ~msg.intent.obj
    THEN [players |-> [ps EXCEPT ![msg.pid].addr = addr], crashed |-> TRUE,
          branch |-> "intent not an object"]
    ELSE LET v == IntentVelocity(msg.intent)
         IN  [players |-> [ps EXCEPT ![msg.pid].addr = addr,
                                     ![msg.pid].vx = @ + v[1],
                                     ![msg.pid].vy = @ + v[2],
                                     ![msg.pid].last_input_time = now],
              crashed |-> FALSE, branch |-> "applied"]

\* server.py:135-156: what one decoded message does to the players under the lock.
\* crashed: the loop's thread ends with an uncaught AttributeError or TypeError.
\*   msg.get on a list/number/string/null (135), players.get of an unhashable pid
\*   (139) and intent.get on a non-object (145) are outside every try block.
\* branch names the path taken through the code.
Ingest(ps, msg, addr, now) ==
    IF msg.t = "undecodable"
    THEN [players |-> ps, crashed |-> FALSE, branch |-> "undecodable"]
    ELSE IF msg.t = "nonobject"
    THEN [players |-> ps, crashed |-> TRUE, branch |-> "nonobject"]
    ELSE IF msg.type # "input"
    THEN [players |-> ps, crashed |-> FALSE, branch |-> "other type"]
    ELSE IF ~msg.hashable
    THEN [players |-> ps, crashed |-> TRUE, branch |-> "unhashable pid"]
    ELSE IF msg.pid \notin DOMAIN ps
    THEN [players |-> ps, crashed |-> FALSE, branch |-> "unknown pid"]
    ELSE IF ~msg.intent.obj
    THEN [players |-> [ps EXCEPT ![msg.pid].addr = addr], crashed |-> TRUE,
          branch |-> "intent not an object"]
    ELSE LET v == IntentVelocity(msg.intent)
         IN  [players |-> [ps EXCEPT ![msg.pid].addr = addr,
                                     ![msg.pid].vx = v[1],
                                     ![msg.pid].vy = v[2],
                                     ![msg.pid].last_input_time = now],
              crashed |-> FALSE, branch |-> "applied"]

\* whether the message needs the lock (server.py:138)
TakesLock(msg) == msg.t = "object" /\ msg.type = "input"

(* ---------------- Physics Tick ----------------------------------------- *)
\* v * dt in whole pixels (server.py:181-182)
DeltaPx(v, dt) == Sign(v) * ((Abs(v) * dt) \div (VScale * UnitsPerSecond))

\* a tick that integrates without clamping
ClampMissing(v, lo, hi) == v

\* max(lo, min(hi, v)) (server.py:184-185)
Clamp(v, lo, hi) == Max(lo, Min(hi, v))

\* server.py:181-185
Integrate(p, dt) ==
    [p EXCEPT !.x = Clamp(p.x + DeltaPx(p.vx, dt), Margin, WORLD_W - Margin),
              !.y = Clamp(p.y + DeltaPx(p.vy, dt), Margin, WORLD_H - Margin)]

\* server.py:200-202
Overlaps(coin, p) ==
    LET dx == coin.x - p.x
        dy == coin.y - p.y
    IN  dx * dx + dy * dy <= (PLAYER_RADIUS + COIN_RADIUS) * (PLAYER_RADIUS + COIN_RADIUS)

\* the inner loop without its break: every overlapping player is awarded
RECURSIVE AwardeesNoBreak(_, _, _)
AwardeesNoBreak(coin, ps, order) ==
    IF order = <<>> THEN <<>>
    ELSE (IF Overlaps(coin, ps[Head(order)]) THEN <<Head(order)>> ELSE <<>>)
         \o AwardeesNoBreak(coin, ps, Tail(order))

\* server.py:199-206: the players awarded for one coin: the inner loop, with its break
RECURSIVE Awardees(_, _, _)
Awardees(coin, ps, order) ==
    IF order = <<>> THEN <<>>
    ELSE IF Overlaps(coin, ps[Head(order)]) THEN <<Head(order)>>
    ELSE Awardees(coin, ps, Tail(order))

\* server.py:198-206: every award of the collision pass, in order
RECURSIVE Awards(_, _)
Awards(cs, ps) ==
    IF cs = <<>> THEN <<>>
    ELSE LET a == Awardees(Head(cs), ps, PidSeq(ps))
             over == {pid \in DOMAIN ps : Overlaps(Head(cs), ps[pid])}
         IN  [i \in 1..Len(a) |-> [coin |-> Head(cs), pid |-> a[i], over |-> over]]
             \o Awards(Tail(cs), ps)

NumAwards(aw, pid) == Cardinality({i \in 1..Len(aw) : aw[i].pid = pid})

\* list.remove: drops the first element equal to c
RECURSIVE RemoveFirst(_, _)
RemoveFirst(cs, c) ==
    IF cs = <<>> THEN <<>>
    ELSE IF Head(cs) = c THEN Tail(cs)
    ELSE <<Head(cs)>> \o RemoveFirst(Tail(cs), c)

InSeq(cs, c) == \E i \in 1..Len(cs) : cs[i] = c

\* server.py:207-210
RECURSIVE RemoveCoins(_, _)
RemoveCoins(cs, aw) ==
    IF aw = <<>> THEN cs
    ELSE RemoveCoins(IF InSeq(cs, Head(aw).coin) THEN RemoveFirst(cs, Head(aw).coin) ELSE cs,
                     Tail(aw))

(* ---------------- the spawn timer ------------------------------------------ *)
\* coin_spawn_timer is a float that sums differences of time.time() readings
\* (server.py:174-176, 187).  The readings lie in one binade of the epoch, so
\* each difference is a multiple of the reading's unit in the last place and the
\* sums, all below a few seconds, are exact: the timer is the exact sum, here in
\* clock units.

\* a test that lets the interval pass before it spawns
ReachedLate(timer) == timer > SpawnInterval

\* coin_spawn_timer >= 2.0 (server.py:188)
Reached(timer) == timer >= SpawnInterval

(* ---------------- Snapshot Broadcaster --------------------------------- *)
NoSnapshot == [type |-> "none", time |-> 0, players |-> <<>>, coins |-> <<>>]

\* json.dumps(snapshot) (server.py:219-225): the pid keys of "players" become strings
Serialize(now, ps, cs) ==
    [type |-> "snapshot",
     time |-> now,
     players |-> [k \in {ToString(pid) : pid \in DOMAIN ps} |->
                    LET pid == CHOOSE q \in DOMAIN ps : ToString(q) = k
                    IN  [x |-> ps[pid].x, y |-> ps[pid].y, score |-> ps[pid].score]],
     coins |-> cs]

\* the loop of 228-230 without its `if p.addr`
RECURSIVE DeliveriesToAll(_, _, _, _, _)
DeliveriesToAll(ps, order, send_time, data, n) ==
    IF order = <<>> THEN <<>>
    ELSE <<[n |-> n, time |-> send_time, data |-> data, addr |-> ps[Head(order)].addr]>>
         \o DeliveriesToAll(ps, Tail(order), send_time, data, n + 1)

\* server.py:228-230: one envelope per player whose addr is set, in dict order
RECURSIVE Deliveries(_, _, _, _, _)
Deliveries(ps, order, send_time, data, n) ==
    IF order = <<>> THEN <<>>
    ELSE IF ps[Head(order)].addr # None
         THEN <<[n |-> n, time |-> send_time, data |-> data, addr |-> ps[Head(order)].addr]>>
              \o Deliveries(ps, Tail(order), send_time, data, n + 1)
    ELSE Deliveries(ps, Tail(order), send_time, data, n)

(* ---------------- inputs the specifications draw from ------------------ *)
\* random.uniform(50, WORLD_W-50) x random.uniform(50, WORLD_H-50) (server.py:33-34)
SpawnPoints == {<<SpawnMargin, SpawnMargin>>, <<400, 300>>}
\* random.uniform(30, WORLD_W-30) x random.uniform(30, WORLD_H-30) (server.py:190-191);
\* (410, 324) is at distance exactly PLAYER_RADIUS + COIN_RADIUS from (400, 300)
CoinPoints == {<<410, 324>>, <<CoinMargin, CoinMargin>>}
ClockSteps == {UnitsPerSecond}

SpecPayloads == {InputMsg(pid, Intent(TRUE, FALSE, FALSE, FALSE)) : pid \in 1..MaxPid}

(* ---------------- initial state ----------------------------------------- *)
\* Server.__init__ (server.py:42-63) and the locals of the loops at thread start
ServerStart(r) ==
    /\ running = r
    /\ players = <<>>
    /\ next_pid = 1
    /\ coins = <<>>
    /\ coin_next_id = 1
    /\ lock = "free"
    /\ inbound_queue = <<>>
    /\ outbound_queue = <<>>
    /\ recv_pc = "recv"
    /\ recv_now = 0
    /\ prev = 0
    /\ coin_spawn_timer = 0
    /\ bc_pc = "idle"
    /\ snapshot = NoSnapshot
    /\ in_n = 0
    /\ out_n = 0
    /\ processed_log = <<>>
    /\ sent_log = <<>>
    /\ award_log = <<>>
    /\ unlocked = {}
    /\ closed = {}
    /\ spawn_log = <<>>
    /\ tick_pc = "idle"
    /\ to_remove = <<>>
    /\ tick_dt = 0
    /\ tick_todo = <<>>

ServerInit == ServerStart(TRUE)
\* the server process is not running: none of its loops takes a step
ServerOff == ServerStart(FALSE)


(* ---------------- the clock --------------------------------------------- *)
\* time.time() between two reads (server.py:27-28), taken as non-decreasing
AdvanceClock(steps, maxTime) ==
    /\ \E d \in steps : clock + d <= maxTime /\ clock' = clock + d
    /\ UNCHANGED <<server_vars, client_vars>>

(* ---------------- lobby -------------------------------------------------- *)
\* a handshake that hands out next_pid and leaves it as it was
HandshakeSamePid(points) ==
    /\ running /\ lock = "free"
    /\ next_pid <= MaxPid
    /\ \E pt \in points :
          players' = [pid \in DOMAIN players \cup {next_pid} |->
                        IF pid = next_pid THEN NewPlayer(pt[1], pt[2]) ELSE players[pid]]
    /\ UNCHANGED <<client_vars, clock, running, next_pid, coins, coin_next_id, lock,
                   inbound_queue, outbound_queue, recv_pc, recv_now, prev, coin_spawn_timer,
                   bc_pc, snapshot, in_n, out_n, processed_log, sent_log, award_log,
                   unlocked, closed, spawn_log, tick_pc, to_remove,
                   tick_dt, tick_todo>>

\* handle_tcp_client, server.py:88-92
Handshake(points) ==
    /\ running /\ lock = "free"
    /\ next_pid <= MaxPid
    /\ \E pt \in points :
          players' = [pid \in DOMAIN players \cup {next_pid} |->
                        IF pid = next_pid THEN NewPlayer(pt[1], pt[2]) ELSE players[pid]]
    /\ next_pid' = next_pid + 1
    /\ UNCHANGED <<client_vars, clock, running, coins, coin_next_id, lock, inbound_queue,
                   outbound_queue, recv_pc, recv_now, prev, coin_spawn_timer, bc_pc,
                   snapshot, in_n, out_n, processed_log, sent_log, award_log,
                   unlocked, closed, spawn_log, tick_pc, to_remove,
                   tick_dt, tick_todo>>

\* The participant of player pid closes its TCP connection.  The handler thread
\* is in one of its sleep loops (server.py:98-110), which test only self.running:
\* nothing in the server reads the connection again.
TcpClose ==
    /\ \E pid \in DOMAIN players \ closed : closed' = closed \cup {pid}
    /\ UNCHANGED <<client_vars, clock, running, players, next_pid, coins, coin_next_id, lock,
                   inbound_queue, outbound_queue, recv_pc, recv_now, prev, coin_spawn_timer,
                   bc_pc, snapshot, in_n, out_n, processed_log, sent_log, award_log,
                   unlocked, spawn_log, tick_pc, to_remove,
                   tick_dt, tick_todo>>

\* start, server.py:74-76: KeyboardInterrupt
Stop ==
    /\ running
    /\ running' = FALSE
    /\ UNCHANGED <<client_vars, clock, players, next_pid, coins, coin_next_id, lock, inbound_queue,
                   outbound_queue, recv_pc, recv_now, prev, coin_spawn_timer, bc_pc,
                   snapshot, in_n, out_n, processed_log, sent_log, award_log,
                   unlocked, closed, spawn_log, tick_pc, to_remove,
                   tick_dt, tick_todo>>

\* handle_tcp_client, server.py:107-114: the handler leaves its wait loop only when
\* running is false, and then deletes its player
HandlerExit ==
    /\ ~running /\ lock = "free"
    /\ \E pid \in DOMAIN players :
          players' = [q \in DOMAIN players \ {pid} |-> players[q]]
    /\ UNCHANGED <<client_vars, clock, running, next_pid, coins, coin_next_id, lock, inbound_queue,
                   outbound_queue, recv_pc, recv_now, prev, coin_spawn_timer, bc_pc,
                   snapshot, in_n, out_n, processed_log, sent_log, award_log,
                   unlocked, closed, spawn_log, tick_pc, to_remove,
                   tick_dt, tick_todo>>

(* ---------------- udp_recv_loop ------------------------------------------ *)
\* server.py:118-127 with a datagram waiting: enqueue it, then read `now`
UdpRecvDatagram(payloads, addrs) ==
    /\ running /\ recv_pc = "recv"
    /\ in_n < MaxDatagrams
    /\ \E data \in payloads, addr \in addrs :
          inbound_queue' = Append(inbound_queue,
              [n |-> in_n + 1, time |-> clock + SERVER_LATENCY, data |-> data, addr |-> addr])
    /\ in_n' = in_n + 1
    /\ recv_now' = clock
    /\ recv_pc' = "drain_in"
    /\ unlocked' = unlocked \cup {<<"udp_recv_loop", "inbound_queue">>}
    /\ UNCHANGED <<client_vars, clock, running, players, next_pid, coins, coin_next_id, lock,
                   outbound_queue, prev, coin_spawn_timer, bc_pc, snapshot, out_n,
                   processed_log, sent_log, award_log,
                   closed, spawn_log, tick_pc, to_remove,
                   tick_dt, tick_todo>>

\* server.py:118-127 with no datagram waiting (BlockingIOError)
UdpRecvNothing ==
    /\ running /\ recv_pc = "recv"
    /\ recv_now' = clock
    /\ recv_pc' = "drain_in"
    /\ UNCHANGED <<client_vars, clock, running, players, next_pid, coins, coin_next_id, lock,
                   inbound_queue, outbound_queue, prev, coin_spawn_timer, bc_pc,
                   snapshot, in_n, out_n, processed_log, sent_log, award_log,
                   unlocked, closed, spawn_log, tick_pc, to_remove,
                   tick_dt, tick_todo>>

\* server.py:128-157, one turn of the while loop: pop the head and ingest it
IngestNext ==
    /\ recv_pc = "drain_in"
    /\ Due(inbound_queue, recv_now)
    /\ LET e == Head(inbound_queue)
           r == Ingest(players, e.data, e.addr, clock)
       IN  /\ TakesLock(e.data) => lock = "free"
           /\ inbound_queue' = Tail(inbound_queue)
           /\ processed_log' = Append(processed_log,
                                      [n |-> e.n, time |-> e.time, branch |-> r.branch])
           /\ players' = r.players
           /\ recv_pc' = IF r.crashed THEN "crashed" ELSE "drain_in"
    /\ unlocked' = unlocked \cup {<<"udp_recv_loop", "inbound_queue">>}
    /\ UNCHANGED <<client_vars, clock, running, next_pid, coins, coin_next_id, lock, outbound_queue,
                   recv_now, prev, coin_spawn_timer, bc_pc, snapshot, in_n, out_n,
                   sent_log, award_log,
                   closed, spawn_log, tick_pc, to_remove,
                   tick_dt, tick_todo>>

\* server.py:128 false, then 160: the inbound pass ends and `now` is read again
IngestDone ==
    /\ recv_pc = "drain_in"
    /\ ~Due(inbound_queue, recv_now)
    /\ recv_now' = clock
    /\ recv_pc' = "drain_out"
    /\ unlocked' = unlocked \cup {<<"udp_recv_loop", "inbound_queue">>}
    /\ UNCHANGED <<client_vars, clock, running, players, next_pid, coins, coin_next_id, lock,
                   inbound_queue, outbound_queue, prev, coin_spawn_timer, bc_pc,
                   snapshot, in_n, out_n, processed_log, sent_log, award_log,
                   closed, spawn_log, tick_pc, to_remove,
                   tick_dt, tick_todo>>

\* server.py:161-167, one turn of the while loop: pop the head and send it
SendNext ==
    /\ recv_pc = "drain_out"
    /\ Due(outbound_queue, recv_now)
    /\ LET e == Head(outbound_queue)
       IN  /\ outbound_queue' = Tail(outbound_queue)
           /\ sent_log' = Append(sent_log, [n |-> e.n, time |-> e.time])
    /\ unlocked' = unlocked \cup {<<"udp_recv_loop", "outbound_queue">>}
    /\ UNCHANGED <<client_vars, clock, running, players, next_pid, coins, coin_next_id, lock,
                   inbound_queue, recv_pc, recv_now, prev, coin_spawn_timer, bc_pc,
                   snapshot, in_n, out_n, processed_log, award_log,
                   closed, spawn_log, tick_pc, to_remove,
                   tick_dt, tick_todo>>

\* server.py:161 false, then 168: the outbound pass ends, sleep, next iteration.
\* `now` is dead until line 127 assigns it again: it is put back to 0.
SendDone ==
    /\ recv_pc = "drain_out"
    /\ ~Due(outbound_queue, recv_now)
    /\ recv_pc' = "recv"
    /\ recv_now' = 0
    /\ unlocked' = unlocked \cup {<<"udp_recv_loop", "outbound_queue">>}
    /\ UNCHANGED <<client_vars, clock, running, players, next_pid, coins, coin_next_id, lock,
                   inbound_queue, outbound_queue, prev, coin_spawn_timer,
                   bc_pc, snapshot, in_n, out_n, processed_log, sent_log, award_log,
                   closed, spawn_log, tick_pc, to_remove,
                   tick_dt, tick_todo>>

(* ---------------- main_loop ----------------------------------------------- *)
\* server.py:174-211, one iteration; pt is the random.uniform draw of 190-191
MainTick(coinPoints) ==
    /\ running /\ lock = "free" /\ tick_pc = "idle"
    /\ LET dt == clock - prev
           moved == [pid \in DOMAIN players |-> Integrate(players[pid], dt)]
           timer == coin_spawn_timer + dt
           spawn == Reached(timer)
       IN  /\ spawn => coin_next_id <= MaxCoins
           /\ \E pt \in coinPoints :
                LET cs == IF spawn
                          THEN Append(coins, [id |-> coin_next_id, x |-> pt[1], y |-> pt[2]])
                          ELSE coins
                    aw == Awards(cs, moved)
                IN  /\ players' = [pid \in DOMAIN moved |->
                                     [moved[pid] EXCEPT !.score = @ + NumAwards(aw, pid)]]
                    /\ coins' = RemoveCoins(cs, aw)
                    /\ award_log' = award_log \o aw
           /\ coin_spawn_timer' = IF spawn THEN 0 ELSE timer
           /\ coin_next_id' = IF spawn THEN coin_next_id + 1 ELSE coin_next_id
           /\ spawn_log' = IF spawn THEN Append(spawn_log, clock) ELSE spawn_log
    /\ prev' = clock
    /\ UNCHANGED <<client_vars, clock, running, next_pid, lock, inbound_queue, outbound_queue,
                   recv_pc, recv_now, bc_pc, snapshot, in_n, out_n, processed_log,
                   sent_log, unlocked, closed, tick_pc, to_remove,
                   tick_dt, tick_todo>>

(* The same tick, statement by statement, for the specifications in which other *)
(* threads run while the main loop is inside its tick.                           *)
\* server.py:175-177: read the clock, compute dt
TickRead ==
    /\ running /\ tick_pc = "idle"
    /\ tick_dt' = clock - prev
    /\ prev' = clock
    /\ tick_pc' = "lock"
    /\ UNCHANGED <<client_vars, clock, running, players, next_pid, coins, coin_next_id, lock,
                   inbound_queue, outbound_queue, recv_pc, recv_now, coin_spawn_timer,
                   bc_pc, snapshot, in_n, out_n, processed_log, sent_log, award_log,
                   unlocked, closed, spawn_log, to_remove, tick_todo>>

\* a main loop that enters its tick without taking the lock
TickLockNotTaken ==
    /\ tick_pc = "lock"
    /\ tick_todo' = PidSeq(players)
    /\ tick_pc' = "integrate"
    /\ UNCHANGED <<client_vars, clock, running, players, next_pid, coins, coin_next_id, lock,
                   inbound_queue, outbound_queue, recv_pc, recv_now, prev, coin_spawn_timer,
                   bc_pc, snapshot, in_n, out_n, processed_log, sent_log, award_log,
                   unlocked, closed, spawn_log, to_remove, tick_dt>>

\* server.py:178-180: take the lock, list the players
TickLock ==
    /\ tick_pc = "lock" /\ lock = "free"
    /\ lock' = "main_loop"
    /\ tick_todo' = PidSeq(players)
    /\ tick_pc' = "integrate"
    /\ UNCHANGED <<client_vars, clock, running, players, next_pid, coins, coin_next_id,
                   inbound_queue, outbound_queue, recv_pc, recv_now, prev, coin_spawn_timer,
                   bc_pc, snapshot, in_n, out_n, processed_log, sent_log, award_log,
                   unlocked, closed, spawn_log, to_remove, tick_dt>>

\* server.py:181-182: p.x += p.vx * dt; p.y += p.vy * dt
TickIntegrate ==
    /\ tick_pc = "integrate" /\ tick_todo # <<>>
    /\ LET pid == Head(tick_todo)
       IN  players' = [players EXCEPT ![pid].x = @ + DeltaPx(players[pid].vx, tick_dt),
                                      ![pid].y = @ + DeltaPx(players[pid].vy, tick_dt)]
    /\ tick_pc' = "clamp"
    /\ UNCHANGED <<client_vars, clock, running, next_pid, coins, coin_next_id, lock,
                   inbound_queue, outbound_queue, recv_pc, recv_now, prev, coin_spawn_timer,
                   bc_pc, snapshot, in_n, out_n, processed_log, sent_log, award_log,
                   unlocked, closed, spawn_log, to_remove, tick_dt, tick_todo>>

\* server.py:184-185: the bounds of the same player
TickClamp ==
    /\ tick_pc = "clamp"
    /\ LET pid == Head(tick_todo)
       IN  players' = [players EXCEPT ![pid].x = Clamp(@, Margin, WORLD_W - Margin),
                                      ![pid].y = Clamp(@, Margin, WORLD_H - Margin)]
    /\ tick_todo' = Tail(tick_todo)
    /\ tick_pc' = "integrate"
    /\ UNCHANGED <<client_vars, clock, running, next_pid, coins, coin_next_id, lock,
                   inbound_queue, outbound_queue, recv_pc, recv_now, prev, coin_spawn_timer,
                   bc_pc, snapshot, in_n, out_n, processed_log, sent_log, award_log,
                   unlocked, closed, spawn_log, to_remove, tick_dt>>

\* server.py:187-194: the spawn timer and the new coin
TickSpawn(coinPoints) ==
    /\ tick_pc = "integrate" /\ tick_todo = <<>>
    /\ LET timer == coin_spawn_timer + tick_dt
           spawn == Reached(timer)
       IN  /\ spawn => coin_next_id <= MaxCoins
           /\ \E pt \in coinPoints :
                coins' = IF spawn
                         THEN Append(coins, [id |-> coin_next_id, x |-> pt[1], y |-> pt[2]])
                         ELSE coins
           /\ coin_spawn_timer' = IF spawn THEN 0 ELSE timer
           /\ coin_next_id' = IF spawn THEN coin_next_id + 1 ELSE coin_next_id
           /\ spawn_log' = IF spawn THEN Append(spawn_log, prev) ELSE spawn_log
    /\ tick_pc' = "collide"
    /\ UNCHANGED <<client_vars, clock, running, players, next_pid, lock,
                   inbound_queue, outbound_queue, recv_pc, recv_now, prev,
                   bc_pc, snapshot, in_n, out_n, processed_log, sent_log, award_log,
                   unlocked, closed, to_remove, tick_dt, tick_todo>>

\* server.py:197-206: the collision pass awards the scores and fills to_remove,
\* kept here as the awards, each of which carries its coin
TickCollide ==
    /\ tick_pc = "collide"
    /\ LET aw == Awards(coins, players)
       IN  /\ players' = [pid \in DOMAIN players |->
                            [players[pid] EXCEPT !.score = @ + NumAwards(aw, pid)]]
           /\ to_remove' = aw
           /\ award_log' = award_log \o aw
    /\ tick_pc' = "remove"
    /\ UNCHANGED <<client_vars, clock, running, next_pid, coins, coin_next_id, lock,
                   inbound_queue, outbound_queue, recv_pc, recv_now, prev, coin_spawn_timer,
                   bc_pc, snapshot, in_n, out_n, processed_log, sent_log,
                   unlocked, closed, spawn_log, tick_dt, tick_todo>>

\* server.py:207-210: remove the collected coins, then leave the `with self.lock`
TickRemove ==
    /\ tick_pc = "remove"
    /\ coins' = RemoveCoins(coins, to_remove)
    /\ to_remove' = <<>>
    /\ lock' = "free"
    /\ tick_pc' = "idle"
    /\ UNCHANGED <<client_vars, clock, running, players, next_pid, coin_next_id,
                   inbound_queue, outbound_queue, recv_pc, recv_now, prev, coin_spawn_timer,
                   bc_pc, snapshot, in_n, out_n, processed_log, sent_log, award_log,
                   unlocked, closed, spawn_log, tick_dt, tick_todo>>

(* ---------------- broadcaster_loop ---------------------------------------- *)
\* server.py:216-225: take the lock, capture and serialize the snapshot
BroadcastCapture ==
    /\ running /\ lock = "free" /\ bc_pc = "idle"
    /\ out_n < MaxOut
    /\ snapshot' = Serialize(clock, players, coins)
    /\ lock' = "broadcaster"
    /\ bc_pc' = "captured"
    /\ UNCHANGED <<client_vars, clock, running, players, next_pid, coins, coin_next_id,
                   inbound_queue, outbound_queue, recv_pc, recv_now, prev,
                   coin_spawn_timer, in_n, out_n, processed_log, sent_log, award_log,
                   unlocked, closed, spawn_log, tick_pc, to_remove,
                   tick_dt, tick_todo>>

\* server.py:227-234: read the clock again, enqueue the sends, release the lock
BroadcastEnqueue ==
    /\ bc_pc = "captured"
    /\ LET new == Deliveries(players, PidSeq(players), clock + SERVER_LATENCY,
                             snapshot, out_n + 1)
       IN  /\ outbound_queue' = outbound_queue \o new
           /\ out_n' = out_n + Len(new)
    /\ snapshot' = NoSnapshot
    /\ lock' = "free"
    /\ bc_pc' = "idle"
    /\ UNCHANGED <<client_vars, clock, running, players, next_pid, coins, coin_next_id,
                   inbound_queue, recv_pc, recv_now, prev, coin_spawn_timer, in_n,
                   processed_log, sent_log, award_log,
                   unlocked, closed, spawn_log, tick_pc, to_remove,
                   tick_dt, tick_todo>>


(* ======================= the client (src/client.py) ====================== *)
\* What json.loads(data.decode()) makes of a datagram (client.py:148): as for the
\* server; an object carries "type", "time", "players" (keyed by strings) and "coins".
CUndecodable == [t |-> "undecodable", type |-> "", time |-> 0, players |-> <<>>, coins |-> <<>>]
CNonObject == [t |-> "nonobject", type |-> "", time |-> 0, players |-> <<>>, coins |-> <<>>]
COtherMsg == [t |-> "object", type |-> "other", time |-> 0, players |-> <<>>, coins |-> <<>>]
SnapMsg(time, ps, cs) ==
    [t |-> "object", type |-> "snapshot", time |-> time, players |-> ps, coins |-> cs]

\* int(pid) (client.py:202)
StrToInt(k) == CHOOSE n \in 0..(MaxPid + 1) : ToString(n) = k

\* a buffer without maxlen
AppendUnbounded(buf, s, maxlen) == Append(buf, s)

\* deque(maxlen).append (client.py:53, 154): a full buffer drops its oldest entry
AppendBounded(buf, s, maxlen) ==
    IF Len(buf) >= maxlen THEN Append(Tail(buf), s) ELSE Append(buf, s)

(* ---------------- Interpolator ------------------------------------------ *)
\* A quotient n/d kept exact; d = 0 stands for the ZeroDivisionError of a division
\* by zero.
Quot(n, d) == [n |-> n, d |-> d]

\* line 192 without its `if t1 > t0`
InterpAlphaUnguarded(render_time, t0, t1) == Quot(render_time - t0, t1 - t0)

\* client.py:192
InterpAlpha(render_time, t0, t1) ==
    IF t1 > t0 THEN Quot(render_time - t0, t1 - t0) ELSE Quot(1, 1)

\* client.py:193: max(0, min(1, alpha))
ClampAlpha(alpha) ==
    IF alpha.d = 0 THEN alpha
    ELSE IF alpha.n > alpha.d THEN Quot(1, 1)
    ELSE IF alpha.n < 0 THEN Quot(0, 1)
    ELSE alpha

\* client.py:199-200: a * (1 - alpha) + b * alpha
Blend(a, b, alpha) == Quot(a * (alpha.d - alpha.n) + b * alpha.n, alpha.d)

\* client.py:179-183: the index of the first adjacent pair around render_time, 0 if none
FirstBracket(snaps, render_time) ==
    LET found == {i \in 1..(Len(snaps) - 1) :
                     snaps[i].time <= render_time /\ render_time <= snaps[i + 1].time}
    IN  IF found = {} THEN 0 ELSE CHOOSE i \in found : \A j \in found : i <= j

\* snaps[-1] (client.py:187)
LastSnapshot(snaps) == snaps[Len(snaps)]

\* a blend that walks the players of the newer snapshot s1
InterpPlayersOfNewer(s0, s1, alpha) ==
    [pid \in {StrToInt(k) : k \in DOMAIN s1.players} |->
        LET k == CHOOSE q \in DOMAIN s1.players : StrToInt(q) = pid
            p1 == s1.players[k]
            p0 == IF k \in DOMAIN s0.players THEN s0.players[k] ELSE p1
        IN  [x |-> Blend(p0.x, p1.x, alpha), y |-> Blend(p0.y, p1.y, alpha),
             score |-> p1.score]]

\* client.py:195-202
InterpPlayers(s0, s1, alpha) ==
    [pid \in {StrToInt(k) : k \in DOMAIN s0.players} |->
        LET k == CHOOSE q \in DOMAIN s0.players : StrToInt(q) = pid
            p0 == s0.players[k]
            p1 == IF k \in DOMAIN s1.players THEN s1.players[k] ELSE p0
        IN  [x |-> Blend(p0.x, p1.x, alpha), y |-> Blend(p0.y, p1.y, alpha),
             score |-> p1.score]]

\* get_interpolated_state (client.py:168-205) at clock reading `now`.  The result is
\* (players, coins); branch and alpha record which return statement produced it.
GetInterpolatedState(snaps, now) ==
    IF snaps = <<>>
    THEN [branch |-> "empty", players |-> <<>>, coins |-> <<>>, alpha |-> Quot(0, 1)]
    ELSE LET render_time == now - INTERPOLATION_DELAY
             i == FirstBracket(snaps, render_time)
         IN  IF i = 0
             THEN [branch |-> "last", players |-> LastSnapshot(snaps).players,
                   coins |-> LastSnapshot(snaps).coins, alpha |-> Quot(0, 1)]
             ELSE LET s0 == snaps[i]
                      s1 == snaps[i + 1]
                      alpha == ClampAlpha(InterpAlpha(render_time, s0.time, s1.time))
                  IN  [branch |-> "blend", players |-> InterpPlayers(s0, s1, alpha),
                       coins |-> s1.coins, alpha |-> alpha]

NoView == [branch |-> "none", players |-> <<>>, coins |-> <<>>, alpha |-> Quot(0, 1)]

(* ---------------- client initial state ------------------------------------ *)
\* Client.__init__ (client.py:27-53) and the locals of the loops at thread start
ClientStart(r) ==
    /\ c_running = r
    /\ to_send_queue = <<>>
    /\ c_inbound_queue = <<>>
    /\ snapshots = <<>>
    /\ send_pc = "poll"
    /\ send_now = 0
    /\ c_recv_pc = "recv"
    /\ c_recv_now = 0
    /\ view = NoView
    /\ view_of = [snaps |-> <<>>, now |-> 0]
    /\ c_in_n = 0
    /\ c_out_n = 0
    /\ c_processed_log = <<>>
    /\ c_sent_log = <<>>

ClientInit == ClientStart(TRUE)
\* the client process is not running: none of its loops takes a step
ClientOff == ClientStart(FALSE)

(* ---------------- Client.udp_send_loop ------------------------------------- *)
\* client.py:125-126
SendLoopPoll ==
    /\ c_running /\ send_pc = "poll"
    /\ send_now' = clock
    /\ send_pc' = "drain"
    /\ UNCHANGED <<server_vars, clock, c_running, to_send_queue, c_inbound_queue,
                   snapshots, c_recv_pc, c_recv_now, view, view_of, c_in_n, c_out_n,
                   c_processed_log, c_sent_log>>

\* client.py:127-132, one turn of the while loop
ClientSendNext ==
    /\ send_pc = "drain"
    /\ Due(to_send_queue, send_now)
    /\ LET e == Head(to_send_queue)
       IN  /\ to_send_queue' = Tail(to_send_queue)
           /\ c_sent_log' = Append(c_sent_log, [n |-> e.n, time |-> e.time])
    /\ UNCHANGED <<server_vars, clock, c_running, c_inbound_queue, snapshots, send_pc,
                   send_now, c_recv_pc, c_recv_now, view, view_of, c_in_n, c_out_n,
                   c_processed_log>>

\* client.py:127 false, then 133; `now` is dead until 126 assigns it again
ClientSendDone ==
    /\ send_pc = "drain"
    /\ ~Due(to_send_queue, send_now)
    /\ send_pc' = "poll"
    /\ send_now' = 0
    /\ UNCHANGED <<server_vars, clock, c_running, to_send_queue, c_inbound_queue,
                   snapshots, c_recv_pc, c_recv_now, view, view_of, c_in_n, c_out_n,
                   c_processed_log, c_sent_log>>

(* ---------------- Client.udp_recv_loop ------------------------------------- *)
\* client.py:136-144 with a datagram waiting; at most maxIn datagrams arrive
ClientRecvUpTo(payloads, maxIn) ==
    /\ c_running /\ c_recv_pc = "recv"
    /\ c_in_n < maxIn
    /\ \E data \in payloads :
          c_inbound_queue' = Append(c_inbound_queue,
              [n |-> c_in_n + 1, time |-> clock + CLIENT_LATENCY, data |-> data])
    /\ c_in_n' = c_in_n + 1
    /\ c_recv_now' = clock
    /\ c_recv_pc' = "drain"
    /\ UNCHANGED <<server_vars, clock, c_running, to_send_queue, snapshots, send_pc,
                   send_now, view, view_of, c_out_n, c_processed_log, c_sent_log>>

ClientRecvDatagram(payloads) == ClientRecvUpTo(payloads, MaxSnapshots)

\* client.py:136-144 with no datagram waiting (BlockingIOError)
ClientRecvNothing ==
    /\ c_running /\ c_recv_pc = "recv"
    /\ c_recv_now' = clock
    /\ c_recv_pc' = "drain"
    /\ UNCHANGED <<server_vars, clock, c_running, to_send_queue, c_inbound_queue,
                   snapshots, send_pc, send_now, view, view_of, c_in_n, c_out_n,
                   c_processed_log, c_sent_log>>

\* client.py:145-154, one turn of the while loop.  snap.get on a list, number,
\* string or null (152) raises AttributeError outside the try block.
ClientProcessNext ==
    /\ c_recv_pc = "drain"
    /\ Due(c_inbound_queue, c_recv_now)
    /\ LET e == Head(c_inbound_queue)
       IN  /\ c_inbound_queue' = Tail(c_inbound_queue)
           /\ c_processed_log' = Append(c_processed_log, [n |-> e.n, time |-> e.time])
           /\ snapshots' =
                IF e.data.t = "object" /\ e.data.type = "snapshot"
                THEN AppendBounded(snapshots,
                        [time |-> e.data.time, players |-> e.data.players,
                         coins |-> e.data.coins, recv_time |-> clock], SnapMaxLen)
                ELSE snapshots
           /\ c_recv_pc' = IF e.data.t = "nonobject" THEN "crashed" ELSE "drain"
    /\ UNCHANGED <<server_vars, clock, c_running, to_send_queue, send_pc, send_now,
                   c_recv_now, view, view_of, c_in_n, c_out_n, c_sent_log>>

\* client.py:145 false, then 156; `now` is dead until 144 assigns it again
ClientProcessDone ==
    /\ c_recv_pc = "drain"
    /\ ~Due(c_inbound_queue, c_recv_now)
    /\ c_recv_pc' = "recv"
    /\ c_recv_now' = 0
    /\ UNCHANGED <<server_vars, clock, c_running, to_send_queue, c_inbound_queue,
                   snapshots, send_pc, send_now, view, view_of, c_in_n, c_out_n,
                   c_processed_log, c_sent_log>>

(* ---------------- Client.game_loop ------------------------------------------ *)
\* send_intent (client.py:158-164), called once per frame (client.py:230); the
\* client's pid is 1
SendIntent(intents) ==
    /\ c_running
    /\ c_out_n < MaxIntents
    /\ \E intent \in intents :
          to_send_queue' = Append(to_send_queue,
              [n |-> c_out_n + 1, time |-> clock + CLIENT_LATENCY,
               data |-> InputMsg(1, intent), addr |-> "server"])
    /\ c_out_n' = c_out_n + 1
    /\ UNCHANGED <<server_vars, clock, c_running, c_inbound_queue, snapshots, send_pc,
                   send_now, c_recv_pc, c_recv_now, view, view_of, c_in_n, c_processed_log,
                   c_sent_log>>

\* get_interpolated_state, called once per frame (client.py:232)
Render ==
    /\ c_running
    /\ view' = GetInterpolatedState(snapshots, clock)
    /\ view_of' = [snaps |-> snapshots, now |-> clock]
    /\ UNCHANGED <<server_vars, clock, c_running, to_send_queue, c_inbound_queue,
                   snapshots, send_pc, send_now, c_recv_pc, c_recv_now, c_in_n, c_out_n,
                   c_processed_log, c_sent_log>>

(* ======================= specifications ==================================== *)
\* The server with its physics, on a clock that advances by whole seconds.
Init == clock = 0 /\ ServerInit /\ ClientOff

Next ==
    \/ AdvanceClock(ClockSteps, MaxTime)
    \/ Handshake(SpawnPoints)
    \/ UdpRecvDatagram(SpecPayloads, {"A"})
    \/ UdpRecvNothing
    \/ IngestNext
    \/ IngestDone
    \/ SendNext
    \/ SendDone
    \/ MainTick(CoinPoints)
    \/ BroadcastCapture
    \/ BroadcastEnqueue

Spec == Init /\ [][Next]_vars

(* ---------------- claims checked under Spec --------------------------------- *)
CoinIds(cs) == {cs[i].id : i \in 1..Len(cs)}
MinOf(S) == CHOOSE m \in S : \A x \in S : m <= x
Added(old, new) == SubSeq(new, Len(old) + 1, Len(new))

\* every coin ever created is either still in the world and was never awarded, or is
\* gone and was awarded exactly once
C1_Settled ==
    \A id \in 1..(coin_next_id - 1) :
        LET n == Cardinality({i \in 1..Len(award_log) : award_log[i].coin.id = id})
        IN  IF id \in CoinIds(coins) THEN n = 0 ELSE n = 1

\* a step of main_loop: it is the only one that changes prev or awards a point
C1_IsTick == prev' # prev \/ award_log' # award_log

\* in a tick, a coin no player overlaps stays and awards nothing; a coin some player
\* overlaps awards exactly one point, to the first overlapping player in iteration
\* order, and is not in the collection when the tick ends; the scores grow by
\* exactly the points awarded
C1_Tick ==
    C1_IsTick =>
        LET new == Added(award_log, award_log')
            tickCoins == {coins[i] : i \in 1..Len(coins)}
                         \cup {coins'[i] : i \in 1..Len(coins')}
                         \cup {new[i].coin : i \in 1..Len(new)}
        IN  /\ DOMAIN players' = DOMAIN players
            /\ \A c \in tickCoins :
                  LET ov == {pid \in DOMAIN players' : Overlaps(c, players'[pid])}
                      got == {i \in 1..Len(new) : new[i].coin = c}
                  IN  IF ov = {}
                      THEN got = {} /\ InSeq(coins', c)
                      ELSE /\ Cardinality(got) = 1
                           /\ \A i \in got : new[i].pid = MinOf(ov)
                           /\ ~InSeq(coins', c)
            /\ \A pid \in DOMAIN players :
                  players'[pid].score =
                      players[pid].score + Cardinality({i \in 1..Len(new) : new[i].pid = pid})

\* C1: coin consumption is exactly-once.  In every tick each coin that overlaps one
\* or more players awards exactly one point in total, to the first overlapping
\* player, and is absent from the coin collection at the end of the tick and in
\* every later state.
C1_ExactlyOnce == []C1_Settled /\ [][C1_Tick]_vars

\* a coin was awarded in a tick in which two players overlapped it
C1_Witness == \E i \in 1..Len(award_log) : Cardinality(award_log[i].over) >= 2

\* C2: boundary clamp.  In every reachable state every player, freshly created or
\* ticked with any dt, has Margin <= x <= WORLD_W - Margin and
\* Margin <= y <= WORLD_H - Margin.
C2_BoundaryClamp ==
    \A pid \in DOMAIN players :
        /\ Margin <= players[pid].x /\ players[pid].x <= WORLD_W - Margin
        /\ Margin <= players[pid].y /\ players[pid].y <= WORLD_H - Margin

\* a player that moved left was stopped at the margin
C2_Witness ==
    \E pid \in DOMAIN players : players[pid].x = Margin /\ players[pid].vx < 0

\* an ingestion pass is under way: the loop has read `now` and a message is due
C12_InPass == recv_pc = "drain_in" /\ Due(inbound_queue, recv_now)

\* a step of another thread's logical operation: a tick, a snapshot capture or a
\* handshake
C12_OtherOperation ==
    \/ prev' # prev \/ award_log' # award_log
    \/ bc_pc = "idle" /\ bc_pc' = "captured"
    \/ next_pid' # next_pid

C12_NoUnlockedAccess == unlocked = {}
C12_PassUnderLock == [][C12_InPass => ~C12_OtherOperation]_vars

\* C12 as claimed: lock discipline.  Every read and write of the players, the
\* coins, the inbound queue and the outbound queue by a server thread happens
\* while that thread holds Server.lock, and the lock is held for the whole of each
\* logical operation: while an ingestion pass is under way no tick, capture or
\* handshake takes place.
C12_LockDiscipline == []C12_NoUnlockedAccess /\ C12_PassUnderLock

\* the step of broadcaster_loop that enqueues the sends
C4_IsEnqueue == bc_pc = "captured" /\ bc_pc' = "idle"

\* what a broadcaster cycle adds to the outbound queue: one envelope for every player
\* whose address is known and none for the others, each carrying the snapshot
\* captured in this cycle
C4_OnePerKnownPlayer ==
    LET new == Added(outbound_queue, outbound_queue')
        known == {pid \in DOMAIN players : players[pid].addr # None}
    IN  /\ outbound_queue' = outbound_queue \o new
        /\ Len(new) = Cardinality(known)
        /\ \A a \in Addrs \cup {None} :
              Cardinality({i \in 1..Len(new) : new[i].addr = a})
                  = IF a = None THEN 0
                    ELSE Cardinality({pid \in known : players[pid].addr = a})
        /\ \A i \in 1..Len(new) :
              /\ new[i].data = snapshot
              /\ DOMAIN new[i].data.players = {ToString(pid) : pid \in DOMAIN players}

\* C4 as amended: in each broadcaster cycle exactly one envelope is enqueued for
\* every player whose address is known and none for a player whose address is
\* unknown; each carries the same snapshot, and its eligible time is the clock read
\* when the sends are enqueued plus SERVER_LATENCY, which is not earlier than the
\* capture time plus SERVER_LATENCY.
C4_BroadcastCycle ==
    [][C4_IsEnqueue =>
          /\ C4_OnePerKnownPlayer
          /\ \A i \in 1..Len(outbound_queue') :
                i > Len(outbound_queue) =>
                    /\ outbound_queue'[i].time = clock + SERVER_LATENCY
                    /\ outbound_queue'[i].time >= snapshot.time + SERVER_LATENCY]_vars

\* C4 as claimed: ... and each envelope's eligible time equals the cycle's capture
\* time (the snapshot's "time") plus SERVER_LATENCY.
C4_AsClaimed ==
    [][C4_IsEnqueue =>
          /\ C4_OnePerKnownPlayer
          /\ \A i \in 1..Len(outbound_queue') :
                i > Len(outbound_queue) =>
                    outbound_queue'[i].time = snapshot.time + SERVER_LATENCY]_vars

\* a cycle with two players, one of them without an address, enqueued one envelope
C4_Witness ==
    /\ out_n = 1 /\ Len(outbound_queue) = 1
    /\ Cardinality(DOMAIN outbound_queue[1].data.players) = 2
    /\ \E pid \in DOMAIN players : players[pid].addr = None

(* The ingest pipeline of the server, on a clock that advances by single units:   *)
(* every kind of datagram, every one of the 16 intents.                            *)
NetPoints == {<<400, 300>>}
AllPayloads ==
    {Undecodable, NonObject, OtherMsg, UnhashablePidMsg,
     InputMsg(MaxPid + 1, Intent(TRUE, FALSE, FALSE, FALSE))}
    \cup {InputMsg(1, i) : i \in AllIntents \cup {NoIntent}}

NextIngest ==
    \/ AdvanceClock({1}, NetMaxTime)
    \/ Handshake(NetPoints)
    \/ UdpRecvDatagram(AllPayloads, {"A"})
    \/ UdpRecvNothing
    \/ IngestNext
    \/ IngestDone
    \/ SendDone

SpecIngest == Init /\ [][NextIngest]_vars

(* ---------------- claims checked under SpecIngest ---------------------------- *)
Last(seq) == seq[Len(seq)]

\* a turn of the inbound drain loop that took the path `branch` through the ingestor
IngestedAs(branch) ==
    /\ Len(processed_log') = Len(processed_log) + 1
    /\ Last(processed_log').branch = branch

\* vx^2 + vy^2 against PLAYER_SPEED^2, both in steps of 1/VScale px/s; the
\* tolerance is what rounding each component to one step can change
SpeedSquared(p) == p.vx * p.vx + p.vy * p.vy
SpeedTolerance == 4 * PLAYER_SPEED * VScale
HasFullSpeed(p) ==
    Abs(SpeedSquared(p) - PLAYER_SPEED * VScale * PLAYER_SPEED * VScale) <= SpeedTolerance
AnyDirection(intent) == intent.left \/ intent.right \/ intent.up \/ intent.down

\* C3 as amended: for each of the 16 combinations of the four directions, ingesting
\* an input with that intent for a known player sets the velocity so that
\* vx^2 + vy^2 equals PLAYER_SPEED^2 (within rounding) if the summed direction
\* vector is non-zero, and to exactly (0, 0) if it is zero: all four directions
\* false, or opposite directions cancelling (left with right, up with down).
C3_Normalization ==
    [][IngestedAs("applied") =>
          LET msg == Head(inbound_queue).data
              p == players'[msg.pid]
          IN  IF IntentDx(msg.intent) # 0 \/ IntentDy(msg.intent) # 0
              THEN HasFullSpeed(p)
              ELSE p.vx = 0 /\ p.vy = 0]_vars

\* C3 as claimed: if at least one direction is set, vx^2 + vy^2 equals
\* PLAYER_SPEED^2 (within rounding), and if all four are false the velocity is
\* exactly (0, 0).
C3_AsClaimed ==
    [][IngestedAs("applied") =>
          LET msg == Head(inbound_queue).data
              p == players'[msg.pid]
          IN  IF AnyDirection(msg.intent)
              THEN HasFullSpeed(p)
              ELSE p.vx = 0 /\ p.vy = 0]_vars

\* an ingested diagonal intent: both components non-zero, of equal size
C3_Witness ==
    /\ processed_log # <<>> /\ Last(processed_log).branch = "applied"
    /\ \E pid \in DOMAIN players :
          players[pid].vx # 0 /\ Abs(players[pid].vx) = Abs(players[pid].vy)

\* C7 as claimed: no payload that reaches the inbound queue is fatal to
\* udp_recv_loop: the thread never ends with an uncaught exception.
C7_NeverFatal == recv_pc # "crashed"

\* C8: ingesting a well-formed input whose pid is not a known player's leaves the
\* world unchanged: no player's velocity, address, last-input time, position or
\* score changes, no player is created, the coins are unchanged, and the loop goes on.
C8_UnknownPidIgnored ==
    [][IngestedAs("unknown pid") =>
          /\ Head(inbound_queue).data.pid \notin DOMAIN players
          /\ UNCHANGED <<players, coins, next_pid, coin_next_id>>
          /\ recv_pc' = "drain_in"]_vars

\* an input for an unknown pid was ingested while a player existed
C8_Witness ==
    /\ processed_log # <<>> /\ Last(processed_log).branch = "unknown pid"
    /\ DOMAIN players # {}

\* the velocity of player pid in the collection ps
Velocity(ps, pid) == <<ps[pid].vx, ps[pid].vy>>

\* an accepted input gives the player the velocity of its intent, whatever the
\* player's velocity was; an intent that commands the velocity the player
\* already has, as when it is ingested a second time, leaves the velocity alone
C16_Step ==
    IngestedAs("applied") =>
        LET m == Head(inbound_queue).data
        IN  /\ Velocity(players', m.pid) = IntentVelocity(m.intent)
            /\ Velocity(players, m.pid) = IntentVelocity(m.intent) =>
                  Velocity(players', m.pid) = Velocity(players, m.pid)

\* C16: velocity is a direct overwrite.  After any sequence of accepted inputs
\* for a player its velocity is the velocity of the last ingested intent alone,
\* independent of earlier intents and of the previous velocity.
C16_DirectOverwrite == [][C16_Step]_vars

\* two inputs were accepted for player 1 one after the other, and the player moves
C16_Witness ==
    /\ Len(processed_log) = 2
    /\ processed_log[1].branch = "applied" /\ processed_log[2].branch = "applied"
    /\ 1 \in DOMAIN players /\ Velocity(players, 1) # <<0, 0>>

(* The four latency queues.  The two programs are separate processes that share   *)
(* nothing but the datagram transport, and what the transport delivers is an       *)
(* input here, so a behaviour is one of the server (the client not running) or     *)
(* one of the client (the server not running).                                     *)
PlayersA == ("1" :> [x |-> 0, y |-> 0, score |-> 0]) @@ ("2" :> [x |-> 100, y |-> 50, score |-> 1])
PlayersB == ("1" :> [x |-> 10, y |-> 20, score |-> 1])
CoinsA == <<[id |-> 1, x |-> 410, y |-> 324]>>
CoinsB == <<>>

QueuePayloads == {InputMsg(1, Intent(TRUE, FALSE, FALSE, FALSE)), NonObject}
QueueSnapshots == {SnapMsg(0, PlayersA, CoinsA), CNonObject}
QueueIntents == {Intent(TRUE, FALSE, FALSE, FALSE)}

InitQueues ==
    /\ clock = 0
    /\ \/ ServerInit /\ ClientOff
       \/ ServerOff /\ ClientInit

NextQueues ==
    \/ AdvanceClock({1}, NetMaxTime)
    \/ Handshake(NetPoints)
    \/ UdpRecvDatagram(QueuePayloads, {"A"})
    \/ UdpRecvNothing
    \/ IngestNext
    \/ IngestDone
    \/ SendNext
    \/ SendDone
    \/ BroadcastCapture
    \/ BroadcastEnqueue
    \/ SendLoopPoll
    \/ ClientSendNext
    \/ ClientSendDone
    \/ ClientRecvDatagram(QueueSnapshots)
    \/ ClientRecvNothing
    \/ ClientProcessNext
    \/ ClientProcessDone
    \/ SendIntent(QueueIntents)

SpecQueues == InitQueues /\ [][NextQueues]_vars

\* The same, with every loop scheduled fairly: the clock goes on, and each thread
\* that can take a step eventually takes one.  The drain loop of the server waits
\* for the lock (server.py:138), which the broadcaster frees in every cycle before
\* it sleeps: a loop that finds the lock free again and again gets it.
FairSpecQueues ==
    /\ SpecQueues
    /\ WF_vars(AdvanceClock({1}, NetMaxTime))
    /\ SF_vars(UdpRecvNothing \/ IngestNext \/ IngestDone \/ SendNext \/ SendDone)
    /\ WF_vars(BroadcastCapture \/ BroadcastEnqueue)
    /\ WF_vars(SendLoopPoll \/ ClientSendNext \/ ClientSendDone)
    /\ WF_vars(ClientRecvNothing \/ ClientProcessNext \/ ClientProcessDone)

(* ---------------- claims checked under SpecQueues ---------------------------- *)
SortedByTime(q) == \A i, j \in 1..Len(q) : i < j => q[i].time <= q[j].time
Ids(q) == {q[i].n : i \in 1..Len(q)}
NoRepeat(q) == \A i, j \in 1..Len(q) : i # j => q[i].n # q[j].n

\* a queue and the log of what its drain loop delivered: the queue is sorted by
\* eligible time, nothing was delivered twice or is both delivered and waiting,
\* and the deliveries were made in eligible-time order
QueueSafe(queue, log) ==
    /\ SortedByTime(queue)
    /\ NoRepeat(log) /\ NoRepeat(queue)
    /\ Ids(queue) \cap Ids(log) = {}
    /\ SortedByTime(log)

C9_State ==
    /\ QueueSafe(inbound_queue, processed_log)
    /\ QueueSafe(outbound_queue, sent_log)
    /\ QueueSafe(to_send_queue, c_sent_log)
    /\ QueueSafe(c_inbound_queue, c_processed_log)

\* a delivery takes the head of the queue, and not before its eligible time
DeliveredInTime(queue, queue2, log, log2) ==
    Len(log2) = Len(log) + 1 =>
        /\ queue # <<>> /\ queue2 = Tail(queue)
        /\ Last(log2).n = Head(queue).n /\ Last(log2).time = Head(queue).time
        /\ Last(log2).time <= clock

\* when a drain pass that read the clock as `now` ends, no envelope with eligible
\* time <= now is left in the queue
PassLeavesNoneDue(ends, queue2, now) ==
    ends => \A i \in 1..Len(queue2) : queue2[i].time > now

C9_Step ==
    /\ clock' >= clock
    /\ DeliveredInTime(inbound_queue, inbound_queue', processed_log, processed_log')
    /\ DeliveredInTime(outbound_queue, outbound_queue', sent_log, sent_log')
    /\ DeliveredInTime(to_send_queue, to_send_queue', c_sent_log, c_sent_log')
    /\ DeliveredInTime(c_inbound_queue, c_inbound_queue', c_processed_log, c_processed_log')
    /\ PassLeavesNoneDue(recv_pc = "drain_in" /\ recv_pc' = "drain_out", inbound_queue', recv_now)
    /\ PassLeavesNoneDue(recv_pc = "drain_out" /\ recv_pc' = "recv", outbound_queue', recv_now)
    /\ PassLeavesNoneDue(send_pc = "drain" /\ send_pc' = "poll", to_send_queue', send_now)
    /\ PassLeavesNoneDue(c_recv_pc = "drain" /\ c_recv_pc' = "recv", c_inbound_queue', c_recv_now)

\* C9: latency queue delivery safety, for the server's inbound and outbound queues
\* and the client's outbound and inbound queues, on a clock that never goes back:
\* each queue is sorted by eligible time in every reachable state; no envelope is
\* delivered before its eligible time; each is delivered at most once; deliveries
\* are in eligible-time order; and when a drain pass at time now has ended, no
\* envelope with eligible time <= now remains in the queue.
C9_DeliverySafety == []C9_State /\ [][C9_Step]_vars

\* the server delivered two inputs with different eligible times and a snapshot
C9_Witness ==
    /\ Len(processed_log) = 2 /\ processed_log[1].time < processed_log[2].time
    /\ sent_log # <<>>

\* the client delivered two intents and, separately, two datagrams
C9_ClientWitness == Len(c_sent_log) = 2 \/ Len(c_processed_log) = 2

\* an envelope whose eligible time is reached is still in the queue
Waiting(queue) == \E i \in 1..Len(queue) : queue[i].time <= clock
AnyWaiting ==
    \/ Waiting(inbound_queue) \/ Waiting(outbound_queue)
    \/ Waiting(to_send_queue) \/ Waiting(c_inbound_queue)

\* C10 as claimed: the latency queues never drop a packet.  Under fair scheduling
\* of the draining loops every envelope enqueued while the process runs is
\* delivered once its eligible time is reached: an envelope leaves a queue only by
\* being delivered, so from some point on no envelope whose eligible time is
\* reached is still waiting in a queue.
C10_NeverDropped == <>[]~AnyWaiting

(* The client's snapshot buffer and interpolator: snapshots reach the client in   *)
(* any order, with any of the timestamps of SnapTimes.                             *)
SnapTimes == {0, 2, 10}
InterpSnapshots ==
    {CUndecodable, COtherMsg}
    \cup {SnapMsg(t, PlayersA, CoinsA) : t \in SnapTimes}
    \cup {SnapMsg(t, PlayersB, CoinsB) : t \in SnapTimes}

InitInterp == clock = 0 /\ ServerOff /\ ClientInit

NextInterp ==
    \/ AdvanceClock({1}, NetMaxTime)
    \/ ClientRecvDatagram(InterpSnapshots)
    \/ ClientRecvNothing
    \/ ClientProcessNext
    \/ ClientProcessDone
    \/ Render

SpecInterp == InitInterp /\ [][NextInterp]_vars

(* ---------------- claims checked under SpecInterp ---------------------------- *)
\* whether the adjacent pair at i, i + 1 is around render_time
Brackets(snaps, i, render_time) ==
    snaps[i].time <= render_time /\ render_time <= snaps[i + 1].time

\* q is the quotient n / d, for d > 0
IsQuotient(q, n, d) == q.d > 0 /\ q.n * d = n * q.d

\* C5: interpolation convexity.  For any buffer contents, snapshots out of capture
\* order or with equal timestamps included, when the interpolator selects an
\* adjacent pair (s0, s1) around render_time, alpha is
\* (render_time - s0.time) / (s1.time - s0.time), or 1 when the two times are
\* equal, it lies in [0, 1] and no division by zero happens; the position of each
\* output player that both snapshots hold is s0.pos * (1 - alpha) + s1.pos * alpha,
\* its score is s1's score, and the coins are s1's coins.
C5_Convexity ==
    view.branch = "blend" =>
        LET snaps == view_of.snaps
            render_time == view_of.now - INTERPOLATION_DELAY
            a == view.alpha
        IN  \E i \in 1..(Len(snaps) - 1) :
              LET s0 == snaps[i]
                  s1 == snaps[i + 1]
              IN  /\ Brackets(snaps, i, render_time)
                  /\ \A j \in 1..(i - 1) : ~Brackets(snaps, j, render_time)
                  /\ a.d > 0 /\ 0 <= a.n /\ a.n <= a.d
                  /\ IF s1.time = s0.time THEN a.n = a.d
                     ELSE IsQuotient(a, render_time - s0.time, s1.time - s0.time)
                  /\ DOMAIN view.players = {StrToInt(k) : k \in DOMAIN s0.players}
                  /\ \A k \in DOMAIN s0.players \cap DOMAIN s1.players :
                        LET out == view.players[StrToInt(k)]
                            p0 == s0.players[k]
                            p1 == s1.players[k]
                        IN  /\ IsQuotient(out.x, p0.x * (a.d - a.n) + p1.x * a.n, a.d)
                            /\ IsQuotient(out.y, p0.y * (a.d - a.n) + p1.y * a.n, a.d)
                            /\ out.score = p1.score
                  /\ view.coins = s1.coins

\* t0 = 0, x0 = 0, t1 = 1 s, x1 = 10, render_time = 0.3 s: alpha = 3/10 and x = 3
C5_Witness ==
    /\ view.branch = "blend"
    /\ view.alpha = Quot(3, 10)
    /\ view.players[1].x = Quot(30, 10)

\* two snapshots with the same timestamp were blended: alpha is taken as 1
C5_EqualTimesWitness ==
    /\ view.branch = "blend"
    /\ view_of.snaps[1].time = view_of.snaps[2].time

\* the pair the interpolator blended: the first adjacent pair around render_time
BlendedPair ==
    LET snaps == view_of.snaps
        render_time == view_of.now - INTERPOLATION_DELAY
        i == MinOf({j \in 1..(Len(snaps) - 1) : Brackets(snaps, j, render_time)})
    IN  [s0 |-> snaps[i], s1 |-> snaps[i + 1]]

\* C18: vanished-player hold.  When the interpolator blends a pair (s0, s1), the
\* output players are exactly the player ids of s0; a player of s0 that s1 does
\* not hold is output at s0's position with s0's score, whatever alpha is, and a
\* player that only s1 holds is not output.
C18_VanishedHold ==
    view.branch = "blend" =>
        LET s0 == BlendedPair.s0
            s1 == BlendedPair.s1
        IN  /\ DOMAIN view.players = {StrToInt(k) : k \in DOMAIN s0.players}
            /\ \A k \in DOMAIN s0.players \ DOMAIN s1.players :
                  LET out == view.players[StrToInt(k)]
                  IN  /\ IsQuotient(out.x, s0.players[k].x, 1)
                      /\ IsQuotient(out.y, s0.players[k].y, 1)
                      /\ out.score = s0.players[k].score
            /\ \A k \in DOMAIN s1.players \ DOMAIN s0.players :
                  StrToInt(k) \notin DOMAIN view.players

\* player 2, which the newer snapshot does not hold, was output from a blend with
\* alpha strictly between 0 and 1
C18_Witness ==
    /\ view.branch = "blend"
    /\ 0 < view.alpha.n /\ view.alpha.n < view.alpha.d
    /\ "2" \in DOMAIN BlendedPair.s0.players \ DOMAIN BlendedPair.s1.players
    /\ 2 \in DOMAIN view.players

\* a blend whose newer snapshot holds player 2 and whose older one does not
C18_NewcomerWitness ==
    /\ view.branch = "blend"
    /\ "2" \in DOMAIN BlendedPair.s1.players \ DOMAIN BlendedPair.s0.players

GreatestTime(snaps) ==
    CHOOSE t \in {snaps[i].time : i \in 1..Len(snaps)} :
        \A i \in 1..Len(snaps) : snaps[i].time <= t

\* C6 as claimed: whenever no adjacent buffered pair is around render_time, the
\* interpolator returns verbatim the players and coins of the buffered snapshot
\* with the greatest capture timestamp, for every arrival order; with an empty
\* buffer it returns no players and no coins; no division is performed.
C6_Fallback ==
    LET snaps == view_of.snaps
        render_time == view_of.now - INTERPOLATION_DELAY
    IN  (view.branch # "none"
         /\ \A i \in 1..(Len(snaps) - 1) : ~Brackets(snaps, i, render_time)) =>
            IF snaps = <<>>
            THEN view.players = <<>> /\ view.coins = <<>>
            ELSE /\ view.branch = "last"
                 /\ \E i \in 1..Len(snaps) :
                       /\ snaps[i].time = GreatestTime(snaps)
                       /\ view.players = snaps[i].players
                       /\ view.coins = snaps[i].coins

(* The client's snapshot buffer under a long run of snapshots: the server's     *)
(* snapshots arrive in capture order, the k-th with timestamp k, more of them   *)
(* than the buffer holds.                                                       *)
BurstMaxTime == 1
NextBuffer ==
    \/ AdvanceClock({1}, BurstMaxTime)
    \/ ClientRecvUpTo({SnapMsg(c_in_n + 1, PlayersB, CoinsB)}, MaxBurst)
    \/ ClientRecvNothing
    \/ ClientProcessNext
    \/ ClientProcessDone

SpecBuffer == InitInterp /\ [][NextBuffer]_vars

(* ---------------- claims checked under SpecBuffer ---------------------------- *)
\* a turn of the client's drain loop that appends a snapshot to the buffer
C11_IsAppend ==
    /\ Len(c_processed_log') = Len(c_processed_log) + 1
    /\ Head(c_inbound_queue).data.t = "object"
    /\ Head(c_inbound_queue).data.type = "snapshot"

\* the snapshot as buffered, without the receipt time the loop adds
Buffered(s) == [time |-> s.time, players |-> s.players, coins |-> s.coins]

C11_Append ==
    C11_IsAppend =>
        LET new == Head(c_inbound_queue).data
            kept == IF Len(snapshots) = SnapMaxLen THEN Tail(snapshots) ELSE snapshots
        IN  /\ Len(snapshots') = Len(kept) + 1
            /\ SubSeq(snapshots', 1, Len(kept)) = kept
            /\ Buffered(Last(snapshots')) = Buffered(new)

\* C11: the client snapshot buffer never holds more than SnapMaxLen (200)
\* snapshots; appending to a full buffer evicts exactly the oldest-received
\* snapshot, and the remaining snapshots keep their receipt order.
C11_BoundedBuffer == [](Len(snapshots) <= SnapMaxLen) /\ [][C11_Append]_vars

\* a full buffer took one more snapshot: the first one received is gone
C11_Witness ==
    /\ Len(snapshots) = SnapMaxLen
    /\ Len(c_processed_log) = SnapMaxLen + 1
    /\ snapshots[1].time = 2

(* The ingestor with inputs for one player that come from two source addresses,  *)
(* and the broadcaster that addresses snapshots to the bound address.            *)
AddrPayloads ==
    {InputMsg(1, Intent(TRUE, FALSE, FALSE, FALSE)), InputMsg(1, Intent(FALSE, FALSE, FALSE, FALSE))}

NextAddr ==
    \/ AdvanceClock({1}, NetMaxTime)
    \/ Handshake(NetPoints)
    \/ UdpRecvDatagram(AddrPayloads, Addrs)
    \/ UdpRecvNothing
    \/ IngestNext
    \/ IngestDone
    \/ SendNext
    \/ SendDone
    \/ BroadcastCapture
    \/ BroadcastEnqueue

SpecAddr == Init /\ [][NextAddr]_vars

(* ---------------- claims checked under SpecAddr ------------------------------ *)
\* C13 as claimed: first-seen address binding.  Once a player's address is bound,
\* no step changes it: ingesting a later input for the same pid, from the same or
\* from another source address, leaves the bound address as it is.
C13_FirstSeenBinding ==
    [][\A pid \in DOMAIN players \cap DOMAIN players' :
          players[pid].addr # None => players'[pid].addr = players[pid].addr]_vars

(* The lobby: participants connect and disconnect, the server may be stopped,   *)
(* and the broadcaster captures the players it finds.                            *)
NextLobby ==
    \/ AdvanceClock({1}, NetMaxTime)
    \/ Handshake(SpawnPoints)
    \/ TcpClose
    \/ Stop
    \/ HandlerExit
    \/ BroadcastCapture
    \/ BroadcastEnqueue

SpecLobby == Init /\ [][NextLobby]_vars

\* The same with the threads scheduled fairly; Stop, the operator's
\* KeyboardInterrupt, may never come.
FairSpecLobby ==
    /\ SpecLobby
    /\ WF_vars(AdvanceClock({1}, NetMaxTime))
    /\ WF_vars(HandlerExit)
    /\ WF_vars(BroadcastCapture \/ BroadcastEnqueue)

(* ---------------- claims checked under FairSpecLobby -------------------------- *)
\* a handshake creates the player with the pid it hands out
C14_Created ==
    next_pid' # next_pid =>
        /\ next_pid \notin DOMAIN players
        /\ DOMAIN players' = DOMAIN players \cup {next_pid}

\* a player whose participant closed its connection is still in the collection
\* of the running server
C14_ClosedPresent == running /\ closed \cap DOMAIN players # {}

\* C14 as claimed: player lifecycle.  A player is created when its participant
\* completes the handshake, and whenever that participant's TCP channel closes
\* while the server is running the player is eventually removed from the player
\* collection (and so from later snapshots): a removed pid never comes back, so
\* from some point on no closed participant's player is left.
C14_Lifecycle == [][C14_Created]_vars /\ <>[]~C14_ClosedPresent

(* ---------------- the world alone --------------------------------------------- *)
(* Participants join, the main loop ticks at irregular times and spawns coins    *)
(* on players and away from them, the server may be stopped.                     *)
NextWorld ==
    \/ AdvanceClock({1}, WorldMaxTime)
    \/ Handshake(SpawnPoints)
    \/ MainTick(CoinPoints)
    \/ Stop
    \/ HandlerExit

SpecWorld == Init /\ [][NextWorld]_vars

(* ---------------- claims checked under SpecWorld ------------------------------- *)
\* every identifier in use was handed out by its counter, and the coins of the
\* collection, which are in creation order, have strictly increasing identifiers
C15_State ==
    /\ \A pid \in DOMAIN players : pid < next_pid
    /\ \A i \in 1..Len(coins) : coins[i].id < coin_next_id
    /\ \A i, j \in 1..Len(coins) : i < j => coins[i].id < coins[j].id
    /\ \A i \in 1..Len(award_log) : award_log[i].coin.id < coin_next_id

\* a player or coin that enters its collection carries the identifier its counter
\* held, and the counter moves past it; the counters never move back
C15_Step ==
    /\ next_pid' >= next_pid
    /\ coin_next_id' >= coin_next_id
    /\ \A pid \in DOMAIN players' \ DOMAIN players :
          pid = next_pid /\ next_pid' = next_pid + 1
    /\ \A id \in CoinIds(coins') \ CoinIds(coins) :
          id = coin_next_id /\ coin_next_id' = coin_next_id + 1
    /\ \A i \in 1..Len(Added(award_log, award_log')) :
          Added(award_log, award_log')[i].coin.id \in CoinIds(coins) \cup {coin_next_id}

\* C15: identifier uniqueness.  No two players and no two coins of the collections
\* share an identifier, coin identifiers are strictly increasing in creation
\* order, and an identifier is never used again after its player or coin is
\* removed: every identifier in use is below its counter, a new one is the
\* counter itself, and the counters only grow.
C15_IdUniqueness == []C15_State /\ [][C15_Step]_vars

\* a second coin, with identifier 2, is in the world after the first was collected
\* and removed, and two players are present
C15_Witness ==
    /\ Cardinality(DOMAIN players) = 2
    /\ Len(award_log) >= 1 /\ award_log[1].coin.id = 1
    /\ CoinIds(coins) = {2}

\* the coins a step creates: those it appends to the collection and those it
\* awards without their having been in the collection before
CreatedCoins ==
    (CoinIds(coins') \ CoinIds(coins))
    \cup ({Added(award_log, award_log')[i].coin.id :
               i \in 1..Len(Added(award_log, award_log'))} \ CoinIds(coins))

\* a tick over a duration dt > 0 adds dt to the timer; when the sum reaches the
\* interval the timer is reset and one coin with the next identifier is created,
\* otherwise none is; no other step touches the timer or creates a coin
C17_Tick ==
    IF prev' # prev
    THEN LET timer == coin_spawn_timer + (prev' - prev)
         IN  IF timer >= SpawnInterval
             THEN /\ coin_spawn_timer' = 0
                  /\ CreatedCoins = {coin_next_id}
                  /\ coin_next_id' = coin_next_id + 1
                  /\ spawn_log' = Append(spawn_log, prev')
             ELSE /\ coin_spawn_timer' = timer
                  /\ CreatedCoins = {}
                  /\ UNCHANGED <<coin_next_id, spawn_log>>
    ELSE /\ CreatedCoins = {}
         /\ UNCHANGED <<coin_spawn_timer, coin_next_id, spawn_log>>

\* when ticks end at 2.0 s and at 4.0 s, one coin is created in each of the two
\* and none in any other tick up to 4.0 s.  The first coin is created at 2.0 s
\* exactly when a tick ends there.
C17_TwoCoins ==
    /\ prev = SpawnInterval => spawn_log = <<SpawnInterval>> /\ coin_next_id = 2
    /\ (prev = 2 * SpawnInterval /\ spawn_log # <<>> /\ spawn_log[1] = SpawnInterval) =>
          spawn_log = <<SpawnInterval, 2 * SpawnInterval>> /\ coin_next_id = 3

\* C17: coin spawning.  Each tick adds dt to the spawn timer; a tick in which the
\* timer reaches the interval of 2.0 s resets it to zero and creates exactly one
\* coin with the next unused identifier, every other tick creates none; so with
\* tick boundaries on 2.0 s and 4.0 s, whatever the irregular ticks in between,
\* exactly two coins have been created by 4.0 s, one in each of those two ticks.
C17_CoinSpawning == []C17_TwoCoins /\ [][C17_Tick]_vars

\* the main loop has ticked at 4.0 s after ticks at irregular times that include
\* 2.0 s, and both coins have been created
C17_Witness ==
    /\ prev = 2 * SpawnInterval
    /\ spawn_log = <<SpawnInterval, 2 * SpawnInterval>>
    /\ coin_next_id = 3

(* ---------------- the threads of the server interleaved ------------------------ *)
(* The main loop runs its tick statement by statement while the handshake        *)
(* handlers, the ingest loop and the broadcaster run beside it.                   *)
NextThreads ==
    \/ AdvanceClock(ClockSteps, MaxTime)
    \/ Handshake(NetPoints)
    \/ UdpRecvDatagram(SpecPayloads, {"A"})
    \/ UdpRecvNothing
    \/ IngestNext
    \/ IngestDone
    \/ SendNext
    \/ SendDone
    \/ TickRead
    \/ TickLock
    \/ TickIntegrate
    \/ TickClamp
    \/ TickSpawn(CoinPoints)
    \/ TickCollide
    \/ TickRemove
    \/ BroadcastCapture
    \/ BroadcastEnqueue

SpecThreads == Init /\ [][NextThreads]_vars

(* ---------------- claims checked under SpecThreads ------------------------------ *)
RECURSIVE SumScores(_, _)
SumScores(ps, keys) ==
    IF keys = {} THEN 0
    ELSE LET k == CHOOSE q \in keys : TRUE
         IN  ps[k].score + SumScores(ps, keys \ {k})

\* the snapshots the broadcaster has built and the server still holds, in capture
\* order: those waiting in the outbound queue and the one just captured
BuiltSnapshots ==
    [i \in 1..Len(outbound_queue) |-> outbound_queue[i].data]
    \o (IF bc_pc = "captured" THEN <<snapshot>> ELSE <<>>)

\* no main-loop tick is between its first and its last write to the world
BetweenTicks == tick_pc \in {"idle", "lock"}

\* a snapshot that shows no half-applied tick: every player is inside the bounds
\* the tick clamps to, and no listed coin is one of the coins the snapshot's
\* scores were awarded for (the scores of a snapshot count the awards made
\* before its capture)
Whole(s) ==
    /\ \A k \in DOMAIN s.players :
          /\ Margin <= s.players[k].x /\ s.players[k].x <= WORLD_W - Margin
          /\ Margin <= s.players[k].y /\ s.players[k].y <= WORLD_H - Margin
    /\ LET awarded == SumScores(s.players, DOMAIN s.players)
       IN  /\ awarded <= Len(award_log)
           /\ \A i \in 1..Len(s.coins), j \in 1..awarded :
                 s.coins[i].id # award_log[j].coin.id

C19_State ==
    /\ \A i \in 1..Len(BuiltSnapshots) : Whole(BuiltSnapshots[i])
    /\ \A i, j \in 1..Len(BuiltSnapshots) :
          i < j => BuiltSnapshots[i].time <= BuiltSnapshots[j].time
    /\ bc_pc = "captured" => BetweenTicks /\ snapshot = Serialize(snapshot.time, players, coins)

\* the broadcaster captures between two ticks, and captures the world as it is
\* under the clock reading of that moment, which is not below any earlier one
C19_Capture ==
    /\ clock' >= clock
    /\ (bc_pc' = "captured" /\ bc_pc # "captured") =>
          /\ BetweenTicks
          /\ snapshot' = Serialize(clock, players, coins)
          /\ \A i \in 1..Len(BuiltSnapshots) : BuiltSnapshots[i].time <= clock

\* C19: snapshot atomicity under interleaving.  Every snapshot the broadcaster
\* builds is the world state as it stood between two complete physics ticks: under
\* any interleaving of the tick, ingest, handshake and broadcast threads no
\* snapshot shows a player integrated but not yet clamped or a score awarded for a
\* coin that the same snapshot still lists, and the capture timestamps are
\* non-decreasing in capture order.
C19_SnapshotAtomicity == []C19_State /\ [][C19_Capture]_vars

\* the broadcaster holds a snapshot that shows an awarded score, captured while
\* the main loop waits for the lock with its next tick
C19_Witness ==
    /\ bc_pc = "captured" /\ tick_pc = "lock"
    /\ SumScores(snapshot.players, DOMAIN snapshot.players) >= 1
    /\ Len(BuiltSnapshots) = 2

\* the main loop is inside a tick with a player outside the bounds, not yet clamped
C19_UnclampedWitness ==
    /\ tick_pc = "clamp"
    /\ \E pid \in DOMAIN players : players[pid].x < Margin

\* the main loop is inside a tick with a score awarded for a coin still listed
C19_AwardedListedWitness == tick_pc = "remove" /\ to_remove # <<>>

\* position and score of a player
Public(p) == <<p.x, p.y, p.score>>

\* a step of the main loop, each of which moves tick_pc
IsTickStep == tick_pc' # tick_pc

\* only a step of the tick changes a player's position or score or the coins
C20_OnlyTick ==
    ~IsTickStep =>
        /\ coins' = coins
        /\ \A pid \in DOMAIN players \cap DOMAIN players' :
              Public(players'[pid]) = Public(players[pid])

\* a turn of the ingest loop changes at most the velocity, the address and the
\* last-input time of the player its input names
C20_Ingest ==
    Len(processed_log') = Len(processed_log) + 1 =>
        LET m == Head(inbound_queue).data
        IN  /\ DOMAIN players' = DOMAIN players
            /\ UNCHANGED <<coins, next_pid, coin_next_id>>
            /\ \A q \in DOMAIN players :
                  IF m.t = "object" /\ m.type = "input" /\ m.hashable /\ q = m.pid
                  THEN players'[q] = [players[q] EXCEPT !.vx = players'[q].vx,
                                                        !.vy = players'[q].vy,
                                                        !.addr = players'[q].addr,
                                                        !.last_input_time =
                                                            players'[q].last_input_time]
                  ELSE players'[q] = players[q]

\* a step of the broadcaster leaves the world as it is and only appends to the
\* outbound queue
C20_Broadcast ==
    bc_pc' # bc_pc =>
        /\ UNCHANGED <<players, next_pid, coins, coin_next_id, inbound_queue,
                       prev, coin_spawn_timer>>
        /\ Len(outbound_queue') >= Len(outbound_queue)
        /\ SubSeq(outbound_queue', 1, Len(outbound_queue)) = outbound_queue

\* C20: frame of the non-tick operations.  Player positions, player scores and
\* the coin collection are changed only by the physics tick; an ingestion step for
\* an input addressed to player p changes only p's velocity, address and
\* last-input time; a broadcaster cycle changes nothing in the world state and
\* only appends to the outbound queue.
C20_Frame == [][C20_OnlyTick /\ C20_Ingest /\ C20_Broadcast]_vars

\* an input was applied to one of two players, the tick has moved a player and
\* the broadcaster has enqueued snapshots
C20_Witness ==
    /\ Cardinality(DOMAIN players) = 2
    /\ \E i \in 1..Len(processed_log) : processed_log[i].branch = "applied"
    /\ \E pid \in DOMAIN players : players[pid].x # 400
    /\ out_n >= 1

====
